---- MODULE Spec2Model ----
(***************************************************************************)
(* A model of DeviceTree (device.js): the request pipeline, the directory  *)
(* completion predicate, the tree merge and the directory expansion.       *)
(*                                                                         *)
(* JavaScript runs every event handler to completion, so each handler     *)
(* (an API call, a transport event, a timer firing) is one action.         *)
(***************************************************************************)
EXTENDS Integers, Sequences, FiniteSets, TLC

VARIABLES
    \* ---- the DeviceTree object (constructor, device.js 9-20)
    pendingRequests, \* the queued requests, oldest first
    activeRequest,   \* the request being served, NoRequest for null
    timeout,         \* the timer handle kept in self.timeout, NoTimer for null
    callback,        \* self.callback, NoCallback for undefined
    requestID,       \* the id the next activated request gets
    root,            \* self.root: the persistent tree
    \* ---- the environment of the object
    timers,          \* the timers that are set and have neither fired nor been cleared
    calls,           \* the number of calls made so far; call p is the p-th
    promise,         \* the calls whose promise is still pending
    lapsed,          \* the call whose request timed out last and whose response
                     \* the device may still send, 0 for none
    \* ---- what an observer has seen
    added,           \* the number of requests passed to addRequest
    activated,       \* the number of requests activated
    lastId,          \* the id given to the request activated last, -1 at first
    accepted,        \* the number of those that send one message when activated
    sent,            \* the number of messages sent for them
    trace,           \* what the last handler did, in order: activations, timer
                     \* events, sends, finishRequest runs, settled promises
    \* ---- directory completion predicate (getDirectory's response handler)
    dirPath,        \* the path (numbers from the root) of the node asked for
    dirElements,    \* the inbound fragment: [present |-> does it carry an element
                    \* collection, list |-> the paths of its top-level elements]
    dirVerdict,     \* "none" | "complete" | "incomplete"
    \* ---- the merge of a fragment, twice (handleRoot)
    mTree,          \* the persistent tree
    mBefore,        \* the tree before the fragment was merged for the first time
    mFrag,          \* the fragment merged last: the one that is merged twice
    mOnce,          \* the tree after the fragment was merged once
    mDropped,       \* the paths of the nodes the first merge dropped
    mStep,          \* how often the fragment has been merged: 0, 1 or 2
    mArrivals,      \* the number of fragments merged before it
    mNotes,         \* what the last operation on the tree did, in order: the
                    \* operation, the nodes merged or dropped, the value-change
                    \* events emitted and the callbacks invoked
    mSubs,          \* the [path, cb, gone] that subscribe was called for; gone
                    \* tells whether unsubscribe was called for it since
    \* ---- the expansion of a subtree (expand)
    xParams,        \* the nodes of the device that are parameters
    xTop,           \* the node the caller passed to expand, NoNode for null
    xStack,         \* the calls of expand in progress, the caller's first:
                    \* [node, next |-> the place of its next child]
    xDir,           \* per node, its getDirectory: "none", "pending", "resolved"
                    \* or the error it was rejected with
    xError,         \* per node, the error recorded on it (child.error)
    xResult         \* the caller's promise: "none" before the call, "pending",
                    \* "resolved" or the error it was rejected with

dirVars == <<dirPath, dirElements, dirVerdict>>
mergeVars == <<mTree, mBefore, mFrag, mOnce, mDropped, mStep, mArrivals, mNotes,
               mSubs>>
expandVars == <<xParams, xTop, xStack, xDir, xError, xResult>>
pipeVars == <<pendingRequests, activeRequest, timeout, callback, requestID, root,
              timers, calls, promise, lapsed, added, activated, lastId, accepted,
              sent, trace>>
vars == <<pipeVars, dirVars, mergeVars, expandVars>>

\* ------------------------------------------------------------ bounds
\* The largest number of top-level elements of an inbound fragment.
MaxElements == 4
\* The largest number of calls made on the object.
MaxCalls == 3
\* The largest number of fragments merged before the one that is merged twice.
MaxArrivals == 2

\* ------------------------------------------------------------ strings
\* A JavaScript string is a sequence of one-character strings.
DigitChars == <<"0", "1", "2", "3", "4", "5", "6", "7", "8", "9">>

RECURSIVE NumStr(_)
\* Number.prototype.toString of a non-negative integer.
NumStr(n) ==
    IF n < 10 THEN <<DigitChars[n + 1]>>
    ELSE NumStr(n \div 10) \o <<DigitChars[(n % 10) + 1]>>

RECURSIVE Join(_, _)
\* Array.prototype.join of a sequence of strings.
Join(segs, sep) ==
    IF segs = <<>> THEN <<>>
    ELSE IF Len(segs) = 1 THEN segs[1]
    ELSE segs[1] \o sep \o Join(Tail(segs), sep)

\* String.prototype.lastIndexOf for a one-character needle (0-based, -1 if absent).
LastIndexOf(s, ch) ==
    LET hits == {i \in 1..Len(s) : s[i] = ch}
    IN  IF hits = {} THEN -1
        ELSE (CHOOSE i \in hits : \A j \in hits : j <= i) - 1

\* String.prototype.startsWith.
StartsWith(s, prefix) ==
    /\ Len(prefix) <= Len(s)
    /\ SubSeq(s, 1, Len(prefix)) = prefix

RECURSIVE Split(_, _)
\* String.prototype.split for a one-character separator.
Split(s, ch) ==
    LET hits == {i \in 1..Len(s) : s[i] = ch}
    IN  IF hits = {} THEN <<s>>
        ELSE LET i == CHOOSE k \in hits : \A j \in hits : k <= j
             IN  <<SubSeq(s, 1, i - 1)>> \o Split(SubSeq(s, i + 1, Len(s)), ch)

\* TreeNode.getPath: the numbers from the root joined by ".", "" for the root.
GetPath(nums) == Join([i \in 1..Len(nums) |-> NumStr(nums[i])], <<".">>)

\* ------------------------------------------------ completion predicate
\* Two plausible slips: the prefix test alone, and the separator test alone.
IsDirectSubPathOfPrefixOnly(path, parent) == StartsWith(path, parent)

IsDirectSubPathOfIndexOnly(path, parent) == LastIndexOf(path, ".") = Len(parent)

IsDirectSubPathOf(path, parent) ==
    /\ LastIndexOf(path, ".") = Len(parent)
    /\ StartsWith(path, parent)

\* node.elements of an inbound fragment: present is FALSE when the fragment
\* carries no element collection (elements is undefined).
Elements(list) == [present |-> TRUE, list |-> list]
NoElements == [present |-> FALSE, list |-> <<>>]

\* The test of getDirectory's response handler on the fragment's elements.
DirectoryComplete(requestedPath, nodeElements) ==
    /\ nodeElements.present
    /\ \A i \in 1..Len(nodeElements.list) :
           \/ GetPath(nodeElements.list[i]) = requestedPath
           \/ IsDirectSubPathOf(GetPath(nodeElements.list[i]), requestedPath)

\* ------------------------------------------------------------ the tree
\* The persistent tree is the list of its nodes below Root in the order they
\* were attached, each [path, value, dcb, cbs]: its numbers from the root, its
\* value (0: none), the directory callbacks waiting on it and the callbacks
\* subscribed to it; plus the directory callbacks waiting on Root itself.
\* A node is named by its index in the list; Root by ROOT, null by NONE.
ROOT == 0
NONE == -1

EmptyRoot == [nodes |-> <<>>, dcb |-> <<>>]

NodePath(tree, i) == IF i = ROOT THEN <<>> ELSE tree.nodes[i].path

Front(seq) == SubSeq(seq, 1, Len(seq) - 1)

IsPrefix(pre, seq) == Len(pre) <= Len(seq) /\ SubSeq(seq, 1, Len(pre)) = pre

\* The least member of a non-empty set of indices, NONE for the empty set.
FirstOf(hits) ==
    IF hits = {} THEN NONE ELSE CHOOSE i \in hits : \A j \in hits : i <= j

\* TreeNode.getElementByPath: the element below parent whose path is pathStr.
GetElementByPath(tree, parent, pathStr) ==
    FirstOf({i \in 1..Len(tree.nodes) :
                 /\ GetPath(tree.nodes[i].path) = pathStr
                 /\ IsPrefix(NodePath(tree, parent), tree.nodes[i].path)})

\* TreeNode.getElementByNumber: the direct child of parent with that number.
GetElementByNumber(tree, parent, number) ==
    FirstOf({i \in 1..Len(tree.nodes) :
                 tree.nodes[i].path = Append(NodePath(tree, parent), number)})

\* Root.elements: the top-level nodes, in the order attached.
RootElements(tree) == SelectSeq(tree.nodes, LAMBDA n : Len(n.path) = 1)

\* Root.clear.
Clear(tree) == [tree EXCEPT !.nodes = <<>>]

\* TreeNode.cancelCallbacks: drops the directory callbacks of the node and of
\* every node below it.
CancelCallbacks(tree) ==
    [nodes |-> [i \in 1..Len(tree.nodes) |-> [tree.nodes[i] EXCEPT !.dcb = <<>>]],
     dcb |-> <<>>]

\* An inbound node is [qualified, number, qpath, value, children]: qpath is its
\* full path when it is qualified, value 0 stands for no value.
\* The path an inbound node has once attached below a node with path parentPath.
AttachedPath(parentPath, node) ==
    IF node.qualified THEN node.qpath ELSE Append(parentPath, node.number)

RECURSIVE Flatten(_, _)
RECURSIVE FlattenAll(_, _)
\* The inbound node and everything it carries below it, as nodes of the tree.
Flatten(parentPath, node) ==
    LET path == AttachedPath(parentPath, node)
    IN  <<[path |-> path, value |-> node.value, dcb |-> <<>>, cbs |-> <<>>]>>
            \o FlattenAll(path, node.children)

FlattenAll(parentPath, children) ==
    IF children = <<>> THEN <<>>
    ELSE Flatten(parentPath, Head(children)) \o FlattenAll(parentPath, Tail(children))

\* TreeNode.addChild: the inbound node object itself, with what it carries,
\* becomes a child of parent.
AddChild(tree, parent, node) ==
    [tree EXCEPT !.nodes = @ \o Flatten(NodePath(tree, parent), node)]

\* The callbacks TreeNode.update hands back for node i: one per waiting
\* directory callback, then one per subscribed callback.
UpdateCallbacks(tree, i) ==
    LET dcb == IF i = ROOT THEN tree.dcb ELSE tree.nodes[i].dcb
        cbs == IF i = ROOT THEN <<>> ELSE tree.nodes[i].cbs
    IN  [k \in 1..Len(dcb) |-> [type |-> "dir", req |-> dcb[k].req, at |-> i, rest |-> dcb[k].rest]]
            \o [k \in 1..Len(cbs) |-> [type |-> "sub", req |-> cbs[k], at |-> i, rest |-> <<>>]]

\* TreeNode.update: takes the inbound value, and the waiting directory
\* callbacks leave the node.
Update(tree, i, value) ==
    IF i = ROOT THEN [tree EXCEPT !.dcb = <<>>]
    ELSE [tree EXCEPT !.nodes[i].dcb = <<>>,
                      !.nodes[i].value = IF value # 0 THEN value ELSE @]

\* ------------------------------------------------------------ the merge
\* The merge works on [root, notes, cbs, dropped]: the tree, the notifications
\* emitted so far, the callbacks collected by the call and the paths of the
\* qualified nodes dropped for want of a known parent.
ValueChange(node, path) == [ev |-> "value-change", path |-> path, value |-> node.value]

\* The marks left in the notes where a node has been attached or updated, and
\* where a node has been dropped.
Merged(path) == [ev |-> "merged", path |-> path, value |-> 0]
Dropped(path) == [ev |-> "dropped", path |-> path, value |-> 0]

RECURSIVE HandleQualifiedNode(_, _, _)
RECURSIVE HandleNode(_, _, _)
RECURSIVE HandleChildren(_, _, _, _)

\* The loops over node.getChildren() of handleQualifiedNode (mixed: TRUE) and
\* of handleNode (mixed: FALSE, every child goes to handleNode).
HandleChildren(m, element, children, mixed) ==
    IF children = <<>> THEN m
    ELSE LET child == Head(children)
             r == IF mixed /\ child.qualified
                  THEN HandleQualifiedNode([m EXCEPT !.cbs = <<>>], element, child)
                  ELSE HandleNode([m EXCEPT !.cbs = <<>>], element, child)
         IN  HandleChildren([r EXCEPT !.cbs = m.cbs \o r.cbs], element,
                            Tail(children), mixed)

\* A plausible slip: handleQualifiedNode that attaches without looking the
\* node up first.
HandleQualifiedNodeNoLookup(m, parent, node) ==
    LET path == Split(GetPath(node.qpath), ".")
        up == GetElementByPath(m.root, ROOT, Join(Front(path), <<".">>))
    IN  IF Len(path) = 1
        THEN HandleChildren(
                 [m EXCEPT !.root = AddChild(m.root, ROOT, node), !.cbs = <<>>],
                 Len(m.root.nodes) + 1, node.children, TRUE)
        ELSE IF up = NONE
        THEN [m EXCEPT !.cbs = <<>>, !.dropped = Append(@, node.qpath)]
        ELSE HandleChildren(
                 [m EXCEPT !.root = AddChild(m.root, up, node), !.cbs = <<>>],
                 Len(m.root.nodes) + 1, node.children, TRUE)

\* A plausible slip: handleQualifiedNode that attaches a node whose parent is
\* unknown to Root.
HandleQualifiedNodeAdopts(m, parent, node) ==
    LET element == GetElementByPath(m.root, parent, GetPath(node.qpath))
    IN  IF element # NONE
        THEN HandleChildren(
                 [root |-> Update(m.root, element, node.value),
                  notes |-> m.notes \o <<ValueChange(node, node.qpath), Merged(node.qpath)>>,
                  cbs |-> UpdateCallbacks(m.root, element),
                  dropped |-> m.dropped],
                 element, node.children, TRUE)
        ELSE HandleChildren(
                 [m EXCEPT !.root = AddChild(m.root, ROOT, node), !.cbs = <<>>,
                           !.notes = Append(@, Merged(node.qpath))],
                 Len(m.root.nodes) + 1, node.children, TRUE)

HandleQualifiedNode(m, parent, node) ==
    LET element == GetElementByPath(m.root, parent, GetPath(node.qpath))
    IN  IF element # NONE
        THEN HandleChildren(
                 [root |-> Update(m.root, element, node.value),
                  notes |-> m.notes \o <<ValueChange(node, node.qpath), Merged(node.qpath)>>,
                  cbs |-> UpdateCallbacks(m.root, element),
                  dropped |-> m.dropped],
                 element, node.children, TRUE)
        ELSE LET path == Split(GetPath(node.qpath), ".")
                 up == GetElementByPath(m.root, ROOT, Join(Front(path), <<".">>))
             IN  IF Len(path) = 1
                 THEN HandleChildren(
                          [m EXCEPT !.root = AddChild(m.root, ROOT, node), !.cbs = <<>>,
                                    !.notes = Append(@, Merged(node.qpath))],
                          Len(m.root.nodes) + 1, node.children, TRUE)
                 ELSE IF up = NONE
                 THEN [m EXCEPT !.cbs = <<>>, !.dropped = Append(@, node.qpath),
                                !.notes = Append(@, Dropped(node.qpath))]
                 ELSE HandleChildren(
                          [m EXCEPT !.root = AddChild(m.root, up, node), !.cbs = <<>>,
                                    !.notes = Append(@, Merged(node.qpath))],
                          Len(m.root.nodes) + 1, node.children, TRUE)

\* A plausible slip: handleNode that puts the inbound node in the place of the
\* known one, which loses what the known one had below it.
HandleNodeReplaces(m, parent, node) ==
    LET n == GetElementByNumber(m.root, parent, node.number)
        at == IF n = NONE THEN Len(m.root.nodes) + 1 ELSE n
        mark == Merged(Append(NodePath(m.root, parent), node.number))
        kept == IF n = NONE THEN m.root
                ELSE [m.root EXCEPT !.nodes = SelectSeq(@, LAMBDA x :
                          x.path = m.root.nodes[n].path
                              \/ ~IsPrefix(m.root.nodes[n].path, x.path))]
        m1 == IF n = NONE
              THEN [m EXCEPT !.root = AddChild(m.root, parent, node), !.cbs = <<>>,
                             !.notes = Append(@, mark)]
              ELSE [m EXCEPT !.root = Update(kept, n, node.value),
                             !.cbs = UpdateCallbacks(m.root, n),
                             !.notes = Append(@, mark)]
    IN  IF node.children # <<>>
        THEN HandleChildren(m1, at, node.children, FALSE)
        ELSE [m1 EXCEPT !.notes =
                  Append(@, ValueChange(node, NodePath(m1.root, at)))]

HandleNode(m, parent, node) ==
    LET n == GetElementByNumber(m.root, parent, node.number)
        at == IF n = NONE THEN Len(m.root.nodes) + 1 ELSE n
        mark == Merged(Append(NodePath(m.root, parent), node.number))
        m1 == IF n = NONE
              THEN [m EXCEPT !.root = AddChild(m.root, parent, node), !.cbs = <<>>,
                             !.notes = Append(@, mark)]
              ELSE [m EXCEPT !.root = Update(m.root, n, node.value),
                             !.cbs = UpdateCallbacks(m.root, n),
                             !.notes = Append(@, mark)]
    IN  IF node.children # <<>>
        THEN HandleChildren(m1, at, node.children, FALSE)
        ELSE [m1 EXCEPT !.notes =
                  Append(@, ValueChange(node, NodePath(m1.root, at)))]

\* The first half of handleRoot: Root's own update and the merge of every
\* element of the fragment; the callbacks are fired by the caller.
MergeRoot(tree, frag) ==
    LET m0 == [root |-> Update(tree, ROOT, 0), notes |-> <<>>,
               cbs |-> UpdateCallbacks(tree, ROOT), dropped |-> <<>>]
    IN  IF frag.elements.present
        THEN HandleChildren(m0, ROOT, frag.elements.list, TRUE)
        ELSE [m0 EXCEPT !.cbs = <<>>]

\* --------------------------------------------------------- the pipeline
\* A request is the closure passed to addRequest: [kind, p, node, n, id]: the
\* operation, the call whose promise it settles, the node or path it is
\* about, its place in the order of addRequest and, once it is active, the id
\* makeRequest gave it. self.callback is the request whose handler is
\* installed, or connect's.
NoRequest == [kind |-> "none", p |-> 0, node |-> <<>>, n |-> 0, id |-> -1]
NoCallback == NoRequest
NoTimer == -1
NoError == "none"

\* What a handler is given as its node: nothing, or an inbound fragment
\* [isNode, invocationResult, elements].
Undefined == [isNode |-> FALSE, invocationResult |-> FALSE, elements |-> NoElements]

\* el.getPath() of the top-level elements of an inbound fragment.
ElementPaths(node) ==
    [present |-> node.elements.present,
     list |-> [i \in 1..Len(node.elements.list) |->
                  AttachedPath(<<>>, node.elements.list[i])]]

\* The pipeline operations work on the record s of the object's fields.
\* What happens is recorded in s.trace as [ev, p, id, n, info].
Log(s, e, p, id, n, info) ==
    [s EXCEPT !.trace = Append(@, [ev |-> e, p |-> p, id |-> id, n |-> n, info |-> info])]

\* resolve and reject of the promise of call p: a settled promise stays.
Resolve(s, p) ==
    IF p \in s.promise
    THEN Log([s EXCEPT !.promise = @ \ {p}], "resolve", p, -1, 0, "")
    ELSE s

Reject(s, p, error) ==
    IF p \in s.promise
    THEN Log([s EXCEPT !.promise = @ \ {p}], "reject", p, -1, 0, error)
    ELSE s

Settle(s, p, error) == IF error # NoError THEN Reject(s, p, error) ELSE Resolve(s, p)

\* client.sendBERNode, for the request that sends.
SendBERNode(s, req) ==
    Log([s EXCEPT !.sent = IF req.kind = "getNodeByPath" THEN @ ELSE @ + 1],
        "send", req.p, req.id, req.n, req.kind)

ClearTimeout(s) ==
    IF s.timeout # NoTimer
    THEN Log([s EXCEPT !.timers = @ \ {s.timeout}, !.timeout = NoTimer],
             "clear", 0, s.timeout, 0, "")
    ELSE s

\* TreeNode.getDirectory(callback): the callback waits on node at.
RegisterDirectoryCallback(s, at, req, rest) ==
    IF at = ROOT
    THEN [s EXCEPT !.root.dcb = Append(@, [req |-> req, rest |-> rest])]
    ELSE [s EXCEPT !.root.nodes[at].dcb = Append(@, [req |-> req, rest |-> rest])]

RECURSIVE MakeRequest(_)
RECURSIVE FinishRequest(_)
RECURSIVE RunRequest(_, _, _)
RECURSIVE TreeGetNodeByPath(_, _, _, _)

\* A plausible slip: finishRequest that leaves the timer running.
FinishRequestKeepTimer(s) ==
    MakeRequest([Log([s EXCEPT !.callback = NoCallback], "finish",
                     s.activeRequest.p, s.activeRequest.id, s.activeRequest.n,
                     s.activeRequest.kind)
                 EXCEPT !.activeRequest = NoRequest])

FinishRequest(s) ==
    MakeRequest([ClearTimeout(Log([s EXCEPT !.callback = NoCallback], "finish",
                                  s.activeRequest.p, s.activeRequest.id,
                                  s.activeRequest.n, s.activeRequest.kind))
                 EXCEPT !.activeRequest = NoRequest])

\* TreeNode.getNodeByPath with the callback of DeviceTree.getNodeByPath: walks
\* the known nodes along rest; where the next one is unknown it asks the
\* device for the directory of the last known node and waits on it.
TreeGetNodeByPath(s, at, rest, req) ==
    IF rest = <<>>
    THEN FinishRequest(Resolve(s, req.p))
    ELSE LET child == GetElementByNumber(s.root, at, Head(rest))
         IN  IF child # NONE
             THEN TreeGetNodeByPath(s, child, Tail(rest), req)
             ELSE SendBERNode(RegisterDirectoryCallback(s, at, req, rest), req)

\* The closure passed to addRequest, called with the error (NoError when the
\* request becomes active).
RunRequest(s, req, error) ==
    CASE req.kind = "getDirectory" ->
             IF error # NoError
             THEN Reject(FinishRequest(s), req.p, error)
             ELSE SendBERNode([s EXCEPT !.callback = req], req)
      [] req.kind = "setValue" ->
             IF error # NoError
             THEN Reject(FinishRequest(s), req.p, error)
             ELSE SendBERNode([s EXCEPT !.callback = req], req)
      [] req.kind = "invokeFunction" ->
             IF error # NoError
             THEN FinishRequest(Reject(s, req.p, error))
             ELSE SendBERNode([s EXCEPT !.callback = req], req)
      [] req.kind = "getNodeByPath" ->
             IF error # NoError
             THEN FinishRequest(Reject(s, req.p, error))
             ELSE TreeGetNodeByPath(s, ROOT, req.node, req)
      [] OTHER -> s

\* The request taken from the queue becomes the active one: it gets the next
\* id, its timer is set and its closure is called.
Activate(s, req, rest) ==
    LET id == s.requestID
        active == [req EXCEPT !.id = id]
    IN  RunRequest(
            Log(Log([s EXCEPT !.activeRequest = active,
                              !.pendingRequests = rest,
                              !.requestID = @ + 1,
                              !.timeout = id,
                              !.timers = @ \cup {id},
                              !.activated = @ + 1,
                              !.lastId = id],
                    "activate", req.p, id, req.n, req.kind),
                "set", req.p, id, req.n, ""),
            active, NoError)

\* Plausible slips: makeRequest without the test for an active request, and
\* makeRequest taking the newest queued request.
MakeRequestNoGuard(s) ==
    IF Len(s.pendingRequests) > 0
    THEN Activate(s, Head(s.pendingRequests), Tail(s.pendingRequests))
    ELSE s

MakeRequestNewest(s) ==
    IF s.activeRequest = NoRequest /\ Len(s.pendingRequests) > 0
    THEN Activate(s, s.pendingRequests[Len(s.pendingRequests)], Front(s.pendingRequests))
    ELSE s

MakeRequest(s) ==
    IF s.activeRequest = NoRequest /\ Len(s.pendingRequests) > 0
    THEN Activate(s, Head(s.pendingRequests), Tail(s.pendingRequests))
    ELSE s

\* addRequest of the closure of call p.
AddRequest(s, kind, p, node) ==
    MakeRequest([s EXCEPT
        !.pendingRequests = Append(@, [kind |-> kind, p |-> p, node |-> node,
                                       n |-> s.added + 1, id |-> -1]),
        !.added = @ + 1,
        !.accepted = IF kind = "getNodeByPath" THEN @ ELSE @ + 1])

\* The error timeoutRequest makes.
EmberTimeoutError == "EmberTimeoutError"

\* A plausible slip: timeoutRequest that leaves the tree's callbacks waiting.
TimeoutRequestNoCancel(s, id) ==
    IF s.activeRequest = NoRequest THEN s
    ELSE RunRequest(s, s.activeRequest, EmberTimeoutError)

\* With no active request the call of null throws after the cancellation.
\* A plausible slip: timeoutRequest that cancels the callbacks and leaves the
\* request alone.
TimeoutRequestCancelOnly(s, id) == [s EXCEPT !.root = CancelCallbacks(@)]

TimeoutRequest(s, id) ==
    LET s1 == [s EXCEPT !.root = CancelCallbacks(@)]
    IN  IF s.activeRequest = NoRequest THEN s1
        ELSE RunRequest(s1, s.activeRequest, EmberTimeoutError)

\* The handler getDirectory installs in self.callback.
GetDirectoryCallback(s, cb, error, node) ==
    IF ~node.isNode THEN s
    ELSE IF error # NoError
    THEN Reject(FinishRequest(ClearTimeout(s)), cb.p, error)
    ELSE LET own == GetPath(cb.node)
             elements == RootElements(s.root)
         IN  IF own = <<>> /\ elements = <<>>
             THEN s   \* self.callback(new Error(...)) returns at the node guard
             ELSE LET requestedPath ==
                          IF own = <<>> THEN GetPath(elements[1].path) ELSE own
                  IN  IF DirectoryComplete(requestedPath, ElementPaths(node))
                      THEN Resolve(FinishRequest(ClearTimeout(s)), cb.p)
                      ELSE s

\* The handler setValue installs.
SetValueCallback(s, cb, error, node) == Settle(FinishRequest(s), cb.p, error)

\* The handler invokeFunction installs.
InvokeFunctionCallback(s, cb, error, node) ==
    FinishRequest(Settle(ClearTimeout(s), cb.p, error))

\* The handler connect installs.
ConnectCallback(s, cb, error) == Settle([s EXCEPT !.callback = NoCallback], cb.p, error)

\* self.callback(error, node), for a callback that is set.
Callback(s, error, node) ==
    LET cb == s.callback
    IN  CASE cb.kind = "connect" -> ConnectCallback(s, cb, error)
          [] cb.kind = "getDirectory" -> GetDirectoryCallback(s, cb, error, node)
          [] cb.kind = "setValue" -> SetValueCallback(s, cb, error, node)
          [] cb.kind = "invokeFunction" -> InvokeFunctionCallback(s, cb, error, node)
          [] OTHER -> s

\* One callback collected by the merge: a directory callback continues the
\* getNodeByPath that waits on the node, a subscribed callback is notified.
FireCallback(s, cb) ==
    IF cb.type = "dir"
    THEN LET child == GetElementByNumber(s.root, cb.at, Head(cb.rest))
         IN  IF child = NONE
             THEN FinishRequest(Reject(s, cb.req.p, "invalid path"))
             ELSE TreeGetNodeByPath(s, child, Tail(cb.rest), cb.req)
    ELSE [s EXCEPT !.notes = Append(@, [ev |-> "callback", path |-> NodePath(s.root, cb.at),
                                         value |-> cb.req])]

RECURSIVE FireCallbacks(_, _)
FireCallbacks(s, cbs) ==
    IF cbs = <<>> THEN s
    ELSE FireCallbacks(FireCallback(s, Head(cbs)), Tail(cbs))

HandleRoot(s, frag) ==
    LET m == MergeRoot(s.root, frag)
        s1 == [s EXCEPT !.root = m.root, !.notes = m.notes]
    IN  IF frag.elements.present THEN FireCallbacks(s1, m.cbs) ELSE s1

\* client.on('emberTree').
OnEmberTree(s, frag) ==
    LET s1 == IF frag.invocationResult THEN s ELSE HandleRoot(s, frag)
    IN  Callback(s1, NoError, frag)

\* ------------------------------------------------------------ actions
\* The object's fields at the start of a handler; the trace starts empty.
Obj ==
    [pendingRequests |-> pendingRequests, activeRequest |-> activeRequest,
     timeout |-> timeout, callback |-> callback, requestID |-> requestID,
     root |-> root, timers |-> timers, calls |-> calls, promise |-> promise,
     lapsed |-> lapsed,
     added |-> added, activated |-> activated, lastId |-> lastId,
     accepted |-> accepted, sent |-> sent,
     trace |-> <<>>, notes |-> <<>>]

Becomes(s) ==
    /\ pendingRequests' = s.pendingRequests
    /\ activeRequest' = s.activeRequest
    /\ timeout' = s.timeout
    /\ callback' = s.callback
    /\ requestID' = s.requestID
    /\ root' = s.root
    /\ timers' = s.timers
    /\ calls' = s.calls
    /\ promise' = s.promise
    /\ lapsed' = s.lapsed
    /\ added' = s.added
    /\ activated' = s.activated
    /\ lastId' = s.lastId
    /\ accepted' = s.accepted
    /\ sent' = s.sent
    /\ trace' = s.trace
    /\ UNCHANGED <<dirVars, mergeVars, expandVars>>

\* A call is made and its promise with it: the call gets the next number.
NewCall(s) == [s EXCEPT !.calls = @ + 1, !.promise = @ \cup {s.calls + 1}]

NextP == calls + 1

PipeInit ==
    /\ pendingRequests = <<>>
    /\ activeRequest = NoRequest
    /\ timeout = NoTimer
    /\ callback = NoCallback
    /\ requestID = 0
    /\ root = EmptyRoot
    /\ timers = {}
    /\ calls = 0
    /\ promise = {}
    /\ lapsed = 0
    /\ added = 0
    /\ activated = 0
    /\ lastId = -1
    /\ accepted = 0
    /\ sent = 0
    /\ trace = <<>>

\* The nodes a caller holds and the paths it asks for.
CallerNodes == { <<1>> }
CallerPaths == { <<1, 1>> }
NodeTypes == { "Node", "Function", "Parameter", "QualifiedParameter" }

\* connect(): the promise's handler replaces self.callback.
Connect ==
    /\ calls < MaxCalls
    /\ Becomes([NewCall(Obj) EXCEPT
                   !.callback = [NoCallback EXCEPT !.kind = "connect", !.p = NextP]])

\* getDirectory() without a node: Root is cleared and asked for.
GetDirectoryRoot ==
    /\ calls < MaxCalls
    /\ Becomes(AddRequest([NewCall(Obj) EXCEPT !.root = Clear(@)],
                          "getDirectory", NextP, <<>>))

\* A plausible slip: getDirectory that clears Root whatever node it is given.
GetDirectoryClears(qnode) ==
    /\ calls < MaxCalls
    /\ Becomes(AddRequest([NewCall(Obj) EXCEPT !.root = Clear(@)],
                          "getDirectory", NextP, qnode))

\* getDirectory(qnode).
GetDirectory(qnode) ==
    /\ calls < MaxCalls
    /\ Becomes(AddRequest(NewCall(Obj), "getDirectory", NextP, qnode))

\* A plausible slip: setValue that queues whatever the node is.
SetValueNoGuard(type, node) ==
    /\ calls < MaxCalls
    /\ Becomes(AddRequest(Log(NewCall(Obj), "setValue", NextP, -1, 0, type),
                          "setValue", NextP, node))

\* setValue(node, value) for a node of the given type.
SetValue(type, node) ==
    /\ calls < MaxCalls
    /\ IF type \notin {"Parameter", "QualifiedParameter"}
       THEN Becomes(Reject(Log(NewCall(Obj), "setValue", NextP, -1, 0, type),
                           NextP, "EmberAccessError"))
       ELSE Becomes(AddRequest(Log(NewCall(Obj), "setValue", NextP, -1, 0, type),
                               "setValue", NextP, node))

\* invokeFunction(fnNode, params).
InvokeFunction(fnNode) ==
    /\ calls < MaxCalls
    /\ Becomes(AddRequest(NewCall(Obj), "invokeFunction", NextP, fnNode))

\* getNodeByPath(path).
GetNodeByPath(path) ==
    /\ calls < MaxCalls
    /\ Becomes(AddRequest(NewCall(Obj), "getNodeByPath", NextP, path))

\* client.on('connected').
Connected == Becomes(Callback(Obj, NoError, Undefined))

\* client.on('disconnected'): the event is passed on, nothing else.
Disconnected == Becomes(Obj)

\* disconnect(): the client is told to disconnect, nothing else.
Disconnect == Becomes(Obj)

\* client.on('error').
TransportError ==
    Becomes(Callback(Log(Obj, "error", callback.p, callback.id, callback.n, callback.kind),
                     "TransportError", Undefined))

\* Whether an inbound fragment lists top-level nodes by their numbers, as the
\* answer to a directory request for Root does.
IsListing(frag) ==
    /\ ~frag.invocationResult
    /\ frag.elements.present
    /\ frag.elements.list # <<>>
    /\ \A i \in 1..Len(frag.elements.list) : ~frag.elements.list[i].qualified

\* The calls an inbound fragment may be the device's late answer to: the one
\* whose request timed out last, or none (0) when the fragment is the answer
\* to the active request or was not asked for.
Origins == {0, lapsed}

\* client.on('emberTree') for an inbound fragment; from is the call the device
\* answers with it, which the fragment does not tell.
EmberTree(frag, from) ==
    Becomes(OnEmberTree(
        Log([Obj EXCEPT !.lapsed = IF from = lapsed THEN 0 ELSE @],
            "tree", from, -1,
            IF IsListing(frag) THEN Len(frag.elements.list) ELSE 0,
            IF IsListing(frag) THEN "listing" ELSE "other"),
        frag))

\* The timer set by makeRequest fires.
TimerFires(id) ==
    /\ id \in timers
    /\ Becomes(TimeoutRequest(
           Log([Obj EXCEPT !.timers = @ \ {id}, !.lapsed = activeRequest.p],
               "fire", activeRequest.p, id, activeRequest.n, activeRequest.kind), id))

\* Inbound nodes and fragments.
Leaf(number, value) ==
    [qualified |-> FALSE, number |-> number, qpath |-> <<>>, value |-> value,
     children |-> <<>>]

Qualified(path, value, children) ==
    [qualified |-> TRUE, number |-> path[Len(path)], qpath |-> path, value |-> value,
     children |-> children]

Fragment(list) ==
    [isNode |-> TRUE, invocationResult |-> FALSE, elements |-> Elements(list)]

InvocationResult ==
    [isNode |-> TRUE, invocationResult |-> TRUE, elements |-> NoElements]

\* The fragments the device sends.
Fragments ==
    { Fragment(<<Leaf(1, 0)>>),
      Fragment(<<Leaf(1, 0), Leaf(2, 0)>>),
      Fragment(<<Qualified(<<1>>, 0, <<Leaf(1, 1)>>)>>),
      Fragment(<<Qualified(<<1, 1>>, 1, <<>>)>>),
      [isNode |-> TRUE, invocationResult |-> FALSE, elements |-> NoElements],
      InvocationResult }

PipeNext ==
    \/ Connect
    \/ GetDirectoryRoot
    \/ \E qnode \in CallerNodes : GetDirectory(qnode)
    \/ \E type \in NodeTypes, node \in {<<1, 1>>} : SetValue(type, node)
    \/ \E fnNode \in {<<2>>} : InvokeFunction(fnNode)
    \/ \E path \in CallerPaths : GetNodeByPath(path)
    \/ Connected
    \/ Disconnected
    \/ Disconnect
    \/ TransportError
    \/ \E frag \in Fragments, from \in Origins : EmberTree(frag, from)
    \/ \E id \in timers : TimerFires(id)

\* ------------------------------------- checks of the completion predicate
\* The element paths a device sends in the checks of the predicate.
DirPaths ==
    { <<1>>, <<1, 2>>, <<1, 3>>, <<1, 21>>,
      <<1, 2, 1>>, <<1, 2, 2>>, <<1, 2, 1, 1>> }

DirStart ==
    /\ dirElements = Elements(<<>>)
    /\ dirVerdict = "none"

DirIdle == dirPath = <<>> /\ DirStart

DirInit == dirPath \in DirPaths /\ DirStart

\* The device adds one more element to the fragment it is about to send.
DirPush(el) ==
    /\ dirVerdict = "none"
    /\ dirElements.present
    /\ Len(dirElements.list) < MaxElements
    /\ dirElements' = Elements(Append(dirElements.list, el))
    /\ UNCHANGED <<dirPath, dirVerdict, pipeVars, mergeVars, expandVars>>

\* The device sends a fragment without an element collection.
DirNoElements ==
    /\ dirVerdict = "none"
    /\ dirElements = Elements(<<>>)
    /\ dirElements' = NoElements
    /\ UNCHANGED <<dirPath, dirVerdict, pipeVars, mergeVars, expandVars>>

\* The response handler judges the fragment.
DirJudge ==
    /\ dirVerdict = "none"
    /\ dirVerdict' = IF DirectoryComplete(GetPath(dirPath), dirElements)
                     THEN "complete" ELSE "incomplete"
    /\ UNCHANGED <<dirPath, dirElements, pipeVars, mergeVars, expandVars>>

DirNext ==
    \/ \E el \in DirPaths : DirPush(el)
    \/ DirNoElements
    \/ DirJudge

\* ------------------------------------------------- checks of the merge
\* The values a device sends (0: the node carries no value).
MergeValues == {0, 1, 2}

\* The paths of the qualified nodes a device sends.
MergePaths == { <<1>>, <<1, 1>>, <<2, 1>> }

\* What a qualified node with path p may carry below it.
ChildrenOf(p) ==
    {<<>>}
        \cup {<<Leaf(1, v)>> : v \in MergeValues \ {0}}
        \cup {<<Qualified(Append(p, 1), 1, <<>>)>>}

QualifiedNodes ==
    {Qualified(p, v, ch) : p \in MergePaths, v \in MergeValues, ch \in UNION {ChildrenOf(q) : q \in MergePaths}}

\* The fragments whose elements are all qualified: one node with what it
\* carries, or a node and its parent in either order.
QualifiedFragments ==
    {Fragment(<<qn>>) : qn \in {x \in QualifiedNodes : x.children \in ChildrenOf(x.qpath)}}
        \cup {Fragment(<<Qualified(<<1>>, v, <<>>), Qualified(<<1, 1>>, w, <<>>)>>) :
                  v, w \in MergeValues}
        \cup {Fragment(<<Qualified(<<1, 1>>, w, <<>>), Qualified(<<1>>, v, <<>>)>>) :
                  v, w \in MergeValues}

\* The fragments that arrive before: qualified ones and directory responses.
ArrivingFragments ==
    QualifiedFragments
        \cup {Fragment(<<Leaf(n, v)>>) : n \in {1, 2}, v \in MergeValues}

\* The callbacks a caller subscribes, and the nodes it subscribes them to.
Subscribers == {1}
SubscribePaths == { <<1>>, <<1, 1>> }

\* TreeNode.addCallback: the callback joins the node's callbacks unless it is
\* one of them already.
AddCallback(tree, i, cb) ==
    IF \E k \in 1..Len(tree.nodes[i].cbs) : tree.nodes[i].cbs[k] = cb
    THEN tree
    ELSE [tree EXCEPT !.nodes[i].cbs = Append(@, cb)]

\* The operation an entry of mNotes starts with.
Operation(op, path, cb) == [ev |-> op, path |-> path, value |-> cb]

MergeInit ==
    /\ mTree = EmptyRoot
    /\ mBefore = EmptyRoot
    /\ mFrag = Undefined
    /\ mOnce = EmptyRoot
    /\ mDropped = <<>>
    /\ mStep = 0
    /\ mArrivals = 0
    /\ mNotes = <<>>
    /\ mSubs = {}

\* handleRoot(frag) on the tree: nobody waits on a directory here, the
\* callbacks collected are those subscribed.
MergeHandleRoot(tree, frag) ==
    HandleRoot([root |-> tree, notes |-> <<>>], frag)

NotesOf(s) == <<Operation("handleRoot", <<>>, 0)>> \o s.notes

MergeArrive(frag) ==
    /\ mStep = 0
    /\ mArrivals < MaxArrivals
    /\ LET s == MergeHandleRoot(mTree, frag)
       IN  /\ mTree' = s.root
           /\ mNotes' = NotesOf(s)
    /\ mFrag' = frag
    /\ mArrivals' = mArrivals + 1
    /\ UNCHANGED <<mBefore, mOnce, mDropped, mStep, mSubs, pipeVars, dirVars,
                   expandVars>>

\* handleRoot(frag) for the fragment that will be merged again.
MergeFirst(frag) ==
    /\ mStep = 0
    /\ LET s == MergeHandleRoot(mTree, frag)
       IN  /\ mTree' = s.root
           /\ mOnce' = s.root
           /\ mNotes' = NotesOf(s)
    /\ mDropped' = MergeRoot(mTree, frag).dropped
    /\ mBefore' = mTree
    /\ mFrag' = frag
    /\ mStep' = 1
    /\ UNCHANGED <<mArrivals, mSubs, pipeVars, dirVars, expandVars>>

\* handleRoot(frag) once more, with the same fragment.
MergeSecond ==
    /\ mStep = 1
    /\ LET s == MergeHandleRoot(mTree, mFrag)
       IN  /\ mTree' = s.root
           /\ mNotes' = NotesOf(s)
    /\ mStep' = 2
    /\ UNCHANGED <<mBefore, mFrag, mOnce, mDropped, mArrivals, mSubs, pipeVars,
                   dirVars, expandVars>>

MergeNext ==
    \/ \E frag \in ArrivingFragments : MergeArrive(frag)
    \/ \E frag \in QualifiedFragments : MergeFirst(frag)
    \/ MergeSecond

\* subscribe(node, callback) for a node of the tree; stream tells whether the
\* node is a parameter that is a stream.
Subscribe(path, cb, stream) ==
    /\ mStep = 0
    /\ LET i == GetElementByPath(mTree, ROOT, GetPath(path))
       IN  /\ i # NONE
           /\ mTree' = IF stream THEN mTree ELSE AddCallback(mTree, i, cb)
    /\ mNotes' = <<Operation(IF stream THEN "subscribe stream" ELSE "subscribe", path, cb)>>
    /\ mSubs' = IF stream THEN mSubs
                ELSE (mSubs \ {[path |-> path, cb |-> cb, gone |-> TRUE]})
                         \cup {[path |-> path, cb |-> cb, gone |-> FALSE]}
    /\ UNCHANGED <<mBefore, mFrag, mOnce, mDropped, mStep, mArrivals, pipeVars, dirVars,
                   expandVars>>

\* unsubscribe(node, callback).
Unsubscribe(path, cb, stream) ==
    /\ mStep = 0
    /\ LET i == GetElementByPath(mTree, ROOT, GetPath(path))
       IN  /\ i # NONE
           /\ mTree' = IF stream THEN mTree ELSE AddCallback(mTree, i, cb)
    /\ mSubs' = IF ~stream /\ [path |-> path, cb |-> cb, gone |-> FALSE] \in mSubs
                THEN (mSubs \ {[path |-> path, cb |-> cb, gone |-> FALSE]})
                         \cup {[path |-> path, cb |-> cb, gone |-> TRUE]}
                ELSE mSubs
    /\ mNotes' = <<Operation(IF stream THEN "unsubscribe stream" ELSE "unsubscribe", path, cb)>>
    /\ UNCHANGED <<mBefore, mFrag, mOnce, mDropped, mStep, mArrivals, pipeVars, dirVars,
                   expandVars>>

NotifyNext ==
    \/ \E frag \in ArrivingFragments : MergeArrive(frag)
    \/ \E path \in SubscribePaths, cb \in Subscribers, stream \in BOOLEAN :
           Subscribe(path, cb, stream)
    \/ \E path \in SubscribePaths, cb \in Subscribers, stream \in BOOLEAN :
           Unsubscribe(path, cb, stream)

\* ------------------------------------------------------ the expansion
\* The device's nodes, by path, and the children node.getChildren() gives once
\* the node's directory has arrived.
ExpandNodes ==
    { <<1>>, <<1, 1>>, <<1, 2>>, <<1, 3>>, <<1, 1, 1>>, <<1, 1, 2>>, <<1, 3, 1>> }

Children(node) ==
    CASE node = <<1>> -> << <<1, 1>>, <<1, 2>>, <<1, 3>> >>
      [] node = <<1, 1>> -> << <<1, 1, 1>>, <<1, 1, 2>> >>
      [] node = <<1, 3>> -> << <<1, 3, 1>> >>
      [] OTHER -> <<>>

NoNode == <<>>

\* The errors getDirectory rejects with.
DirErrors == { EmberTimeoutError, "Error" }

\* The expansion works on the record x of its state.
XObj ==
    [params |-> xParams, top |-> xTop, stack |-> xStack, dir |-> xDir,
     error |-> xError, result |-> xResult]

\* expand(node) beyond its null test: both branches call getDirectory(node).
CallExpand(x, node) ==
    [x EXCEPT !.stack = Append(@, [node |-> node, next |-> 1]),
              !.dir[node] = "pending"]

RECURSIVE Continue(_)
RECURSIVE ExpandResolved(_)
RECURSIVE ExpandRejected(_, _)

\* A plausible slip: expand(child) without the catch, the child's error
\* becomes the parent's.
CatchRethrows(x, child, e) == ExpandRejected(x, e)

\* The catch on expand(child): the error is saved on the child and the chain
\* of the parent goes on.
Catch(x, child, e) == Continue([x EXCEPT !.error[child] = e])

\* The chain p of the innermost expand whose directory has arrived: the
\* children that are parameters are skipped, the next other child is
\* expanded; after the last one the expand resolves.
Continue(x) ==
    LET frame == x.stack[Len(x.stack)]
        children == Children(frame.node)
        later == {i \in frame.next..Len(children) : children[i] \notin x.params}
    IN  IF later = {}
        THEN ExpandResolved(x)
        ELSE LET i == CHOOSE k \in later : \A l \in later : k <= l
             IN  CallExpand([x EXCEPT !.stack[Len(x.stack)].next = i + 1], children[i])

\* The innermost expand resolves: the caller's promise, or the next step of
\* the chain of the parent.
ExpandResolved(x) ==
    LET rest == Front(x.stack)
    IN  IF rest = <<>>
        THEN [x EXCEPT !.stack = rest, !.result = "resolved"]
        ELSE Continue([x EXCEPT !.stack = rest])

\* The innermost expand rejects with e: the caller's promise, or the catch of
\* the parent.
ExpandRejected(x, e) ==
    LET node == x.stack[Len(x.stack)].node
        rest == Front(x.stack)
    IN  IF rest = <<>>
        THEN [x EXCEPT !.stack = rest, !.result = e]
        ELSE Catch([x EXCEPT !.stack = rest], node, e)

XBecomes(x) ==
    /\ xParams' = x.params
    /\ xTop' = x.top
    /\ xStack' = x.stack
    /\ xDir' = x.dir
    /\ xError' = x.error
    /\ xResult' = x.result
    /\ UNCHANGED <<pipeVars, dirVars, mergeVars>>

ExpandStart ==
    /\ xTop = NoNode
    /\ xStack = <<>>
    /\ xDir = [n \in ExpandNodes |-> "none"]
    /\ xError = [n \in ExpandNodes |-> "none"]
    /\ xResult = "none"

ExpandIdle == xParams = {} /\ ExpandStart

ExpandInit == xParams \in SUBSET ExpandNodes /\ ExpandStart

\* expand(null).
ExpandNull ==
    /\ xResult = "none"
    /\ XBecomes([XObj EXCEPT !.result = "Invalid null node"])

\* expand(node).
Expand(node) ==
    /\ xResult = "none"
    /\ XBecomes(CallExpand([XObj EXCEPT !.top = node, !.result = "pending"], node))

\* The getDirectory of the innermost expand resolves: a parameter's expand is
\* that promise, another node's expand goes on with its children.
DirectoryResolves ==
    /\ xStack # <<>>
    /\ LET node == xStack[Len(xStack)].node
           x == [XObj EXCEPT !.dir[node] = "resolved"]
       IN  XBecomes(IF node \in xParams THEN ExpandResolved(x) ELSE Continue(x))

\* The getDirectory of the innermost expand rejects with e, and the expand
\* with it.
DirectoryRejects(e) ==
    /\ xStack # <<>>
    /\ LET node == xStack[Len(xStack)].node
       IN  XBecomes(ExpandRejected([XObj EXCEPT !.dir[node] = e], e))

ExpandNext ==
    \/ ExpandNull
    \/ \E node \in { <<1>>, <<1, 1>> } : Expand(node)
    \/ DirectoryResolves
    \/ \E e \in DirErrors : DirectoryRejects(e)

\* ------------------------------------------------------ specifications
\* The object with its callers, its transport and its timers.
Init == PipeInit /\ DirIdle /\ MergeInit /\ ExpandIdle

Spec == Init /\ [][PipeNext]_vars

\* The step of a timer's function, told by what only it does: the call of the
\* active request becomes the one that timed out last. It can be taken
\* exactly when a timer is live.
TimerFired ==
    /\ timers # {}
    /\ activeRequest # NoRequest
    /\ lapsed' = activeRequest.p

\* TimerFired describes the steps of TimerFires and no others.
TimerFiredIsTimerFires == [][TimerFired <=> \E id \in timers : TimerFires(id)]_vars

\* The pipeline with timers that fire: a timer that has been set and is not
\* cleared fires in the end (setTimeout, 241-243).
SpecLive == Spec /\ WF_lapsed(TimerFired)

\* The completion predicate on the fragments a device may send.
InitDir == DirInit /\ PipeInit /\ MergeInit /\ ExpandIdle

SpecDir == InitDir /\ [][DirNext]_vars

\* The merge of fragments into the tree.
InitMerge == MergeInit /\ PipeInit /\ DirIdle /\ ExpandIdle

SpecMerge == InitMerge /\ [][MergeNext]_vars

\* The merge of fragments into a tree with subscribed callbacks.
SpecNotify == InitMerge /\ [][NotifyNext]_vars

\* The expansion of a subtree, whatever its getDirectory calls come to.
InitExpand == ExpandInit /\ PipeInit /\ DirIdle /\ MergeInit

SpecExpand == InitExpand /\ [][ExpandNext]_vars


\* ------------------------------------------------- reading the trace
\* The places of a trace where event e was recorded.
Places(tr, e) == {i \in 1..Len(tr) : tr[i].ev = e}

\* The call whose request is active just before place j of the trace of a
\* handler that started with the request of call p0 active (0: none).
ActiveAt(tr, j, p0) ==
    LET marks == {k \in 1..(j - 1) : tr[k].ev \in {"activate", "finish"}}
    IN  IF marks = {} THEN p0
        ELSE LET k == CHOOSE m \in marks : \A o \in marks : o <= m
             IN  IF tr[k].ev = "activate" THEN tr[k].p ELSE 0

\* The kinds of request that send exactly one message when activated.
SendingOps == {"getDirectory", "setValue", "invokeFunction"}

\* The queued requests that will send one message when activated.
Unsent(queue) == Cardinality({i \in 1..Len(queue) : queue[i].kind \in SendingOps})

\* ---------------------------------------------------------------- C1
\* C1: in every handler, a request is activated only when no request is
\* active, finishRequest runs for the active request, and a message is sent
\* only for the active request, a getDirectory, setValue or invokeFunction
\* sending exactly one, when it is activated; so each send follows the
\* finishRequest of the request activated before, and N accepted operations
\* have made N sends once all are served.
C1_Serialized ==
    [][/\ \A i \in Places(trace', "activate") :
              /\ ActiveAt(trace', i, activeRequest.p) = 0
              /\ trace'[i].info \in SendingOps =>
                     /\ Len(trace') >= i + 2
                     /\ trace'[i + 2].ev = "send"
                     /\ trace'[i + 2].p = trace'[i].p
       /\ \A k \in Places(trace', "finish") :
              /\ trace'[k].p # 0
              /\ ActiveAt(trace', k, activeRequest.p) = trace'[k].p
       /\ \A j \in Places(trace', "send") :
              /\ ActiveAt(trace', j, activeRequest.p) = trace'[j].p
              /\ trace'[j].info \in SendingOps =>
                     /\ j > 2
                     /\ trace'[j - 2].ev = "activate"
                     /\ trace'[j - 2].p = trace'[j].p
       /\ sent' = accepted' - Unsent(pendingRequests')
       /\ (activeRequest' = NoRequest /\ pendingRequests' = <<>>) => sent' = accepted'
      ]_vars

\* Three operations were accepted, the last while the ones before it were
\* outstanding; all three have been sent, the third in the handler that
\* finished the second.
C1_Witness ==
    /\ accepted = 3
    /\ sent = 3
    /\ \E k \in Places(trace, "finish") : \E j \in Places(trace, "send") :
           /\ k < j
           /\ trace[k].n = 2
           /\ trace[j].n = 3

\* ---------------------------------------------------------------- C2
\* C2: the k-th request to be activated is the k-th request that was passed
\* to addRequest, however the requests before it ended, and it gets an id
\* greater than every id given before.
C2_Fifo ==
    [][\A i \in Places(trace', "activate") :
           LET before == {j \in Places(trace', "activate") : j < i}
           IN  /\ trace'[i].n = activated + Cardinality(before) + 1
               /\ trace'[i].id > lastId
               /\ \A j \in before : trace'[i].id > trace'[j].id
      ]_vars

\* The first of three requests timed out with two queued behind it, and the
\* third is activated after the second.
C2_Witness ==
    /\ activated = 3
    /\ \E i \in Places(trace, "activate") : trace[i].n = 3
    /\ \E k \in Places(trace, "finish") : trace[k].n = 2

\* ---------------------------------------------------------------- C3
\* C3: a timer is set exactly when a request is activated; while a request is
\* active its timer is the one outstanding timer, and none is outstanding
\* otherwise; the timer is cleared exactly once, in the handler in which
\* finishRequest runs for the request, be it on completion or after the
\* timer fired.
C3_OneTimer ==
    [][/\ activeRequest' # NoRequest =>
              (timeout' = activeRequest'.id /\ timers' = {timeout'})
       /\ activeRequest' = NoRequest => (timeout' = NoTimer /\ timers' = {})
       /\ \A i \in Places(trace', "activate") :
              /\ Len(trace') > i
              /\ trace'[i + 1].ev = "set"
              /\ trace'[i + 1].id = trace'[i].id
       /\ \A t \in Places(trace', "set") :
              /\ t > 1
              /\ trace'[t - 1].ev = "activate"
       /\ \A k \in Places(trace', "finish") :
              Cardinality({c \in Places(trace', "clear") : trace'[c].id = trace'[k].id}) = 1
       /\ \A c \in Places(trace', "clear") :
              /\ \E k \in Places(trace', "finish") : trace'[k].id = trace'[c].id
              /\ \A f \in Places(trace', "fire") : trace'[f].id = trace'[c].id => f < c
       /\ \A f \in Places(trace', "fire") :
              /\ f = 1
              /\ trace'[f].id = timeout
              /\ \E c \in Places(trace', "clear") : trace'[c].id = trace'[f].id
      ]_vars

\* The timer of the active request fired; the request was finished, its timer
\* cleared once, and the next request is active with a timer of its own.
C3_Witness ==
    /\ Places(trace, "fire") # {}
    /\ Cardinality(Places(trace, "clear")) = 1
    /\ activeRequest # NoRequest
    /\ timers = {activeRequest.id}

\* ---------------------------------------------------------------- C4
\* The calls whose directory callbacks wait on the tree.
Waiting(tree) ==
    {tree.dcb[k].req.p : k \in 1..Len(tree.dcb)}
        \cup UNION {{tree.nodes[i].dcb[k].req.p : k \in 1..Len(tree.nodes[i].dcb)} :
                        i \in 1..Len(tree.nodes)}

\* C4: when the timer of the active request fires, whatever the kind of the
\* request, the callbacks waiting on the tree are cancelled, the caller's
\* promise is rejected with the timeout error, the request leaves the active
\* slot and the next queued request, if any, is activated.
C4_Timeout ==
    [][(trace' # <<>> /\ trace'[1].ev = "fire") =>
          /\ activeRequest # NoRequest
          /\ \E r \in Places(trace', "reject") :
                 /\ trace'[r].p = activeRequest.p
                 /\ trace'[r].info = EmberTimeoutError
          /\ activeRequest.p \notin promise'
          /\ activeRequest'.p # activeRequest.p
          /\ \E k \in Places(trace', "finish") : trace'[k].p = activeRequest.p
          /\ Waiting(root') \subseteq {activeRequest'.p}
          /\ activeRequest.p \notin Waiting(root')
          /\ pendingRequests # <<>> =>
                 \E a \in Places(trace', "activate") :
                     trace'[a].p = Head(pendingRequests).p
      ]_vars

\* A getNodeByPath timed out and the request queued behind it was activated.
C4_Witness ==
    /\ trace # <<>>
    /\ trace[1].ev = "fire"
    /\ trace[1].info = "getNodeByPath"
    /\ \E r \in Places(trace, "reject") : trace[r].info = EmberTimeoutError
    /\ \E a \in Places(trace, "activate") : trace[a].p = activeRequest.p

\* ---------------------------------------------------------------- C7
\* C7 as stated: when the transport reports an error while a getDirectory is
\* the active request, with its handler installed, the request's timer is
\* cleared, the request leaves the active slot and its promise is rejected
\* with that error.
C7_ErrorRejectsGetDirectory ==
    [][(/\ trace' # <<>>
        /\ trace'[1].ev = "error"
        /\ activeRequest.kind = "getDirectory"
        /\ callback = activeRequest) =>
          /\ \E r \in Places(trace', "reject") :
                 /\ trace'[r].p = activeRequest.p
                 /\ trace'[r].info = "TransportError"
          /\ \E c \in Places(trace', "clear") : trace'[c].id = activeRequest.id
          /\ activeRequest'.p # activeRequest.p
      ]_vars

\* ---------------------------------------------------------------- C8
\* C8: setValue on a node that is neither a parameter nor a qualified
\* parameter rejects at once with the access error and leaves the pipeline as
\* it was: nothing is queued, the active request and the timer stay, and
\* nothing is sent.
C8_SetValueGuard ==
    [][(/\ trace' # <<>>
        /\ trace'[1].ev = "setValue"
        /\ trace'[1].info \notin {"Parameter", "QualifiedParameter"}) =>
          /\ Len(trace') = 2
          /\ trace'[2].ev = "reject"
          /\ trace'[2].p = trace'[1].p
          /\ trace'[2].info = "EmberAccessError"
          /\ trace'[1].p \notin promise'
          /\ UNCHANGED <<pendingRequests, activeRequest, timeout, timers, callback,
                         requestID, root, added, accepted, sent>>
      ]_vars

\* setValue on a plain node was rejected while one request was active and
\* another queued.
C8_Witness ==
    /\ Len(trace) = 2
    /\ trace[1].ev = "setValue"
    /\ trace[1].info = "Node"
    /\ trace[2].info = "EmberAccessError"
    /\ activeRequest # NoRequest
    /\ pendingRequests # <<>>

\* ---------------------------------------------------------------- C5
\* el is p itself or p followed by exactly one further segment.
SelfOrChild(el, p) ==
    \/ el = p
    \/ /\ Len(el) = Len(p) + 1
       /\ SubSeq(el, 1, Len(p)) = p

DirHas(el) == \E i \in 1..Len(dirElements.list) : dirElements.list[i] = el

\* C5: a fragment with elements is judged complete if and only if every
\* top-level element is the requested path or that path followed by exactly
\* one further segment; for "1.2", {"1.2","1.2.1","1.2.2"} and {"1.2.1"} are
\* complete and every fragment containing "1.3" is incomplete.
C5_CompleteIffSelfOrChild ==
    (dirVerdict # "none" /\ dirElements.present) =>
        /\ (dirVerdict = "complete") <=>
               (\A i \in 1..Len(dirElements.list) :
                    SelfOrChild(dirElements.list[i], dirPath))
        /\ (dirPath = <<1, 2>>
               /\ dirElements.list = << <<1, 2>>, <<1, 2, 1>>, <<1, 2, 2>> >>)
               => dirVerdict = "complete"
        /\ (dirPath = <<1, 2>> /\ dirElements.list = << <<1, 2, 1>> >>)
               => dirVerdict = "complete"
        /\ (dirPath = <<1, 2>> /\ DirHas(<<1, 3>>))
               => dirVerdict = "incomplete"

C5_Witness ==
    /\ dirPath = <<1, 2>>
    /\ dirElements = Elements(<< <<1, 2>>, <<1, 2, 1>>, <<1, 2, 2>> >>)
    /\ dirVerdict = "complete"

\* ---------------------------------------------------------------- C6
GrandchildFragment == << <<1, 2>>, <<1, 2, 1>>, <<1, 2, 2>>, <<1, 2, 1, 1>> >>

\* C6 as stated: for "1.2" the fragment {"1.2","1.2.1","1.2.2","1.2.1.1"}
\* is judged complete.
C6_GrandchildComplete ==
    (dirPath = <<1, 2>> /\ dirElements.list = GrandchildFragment /\ dirVerdict # "none")
        => dirVerdict = "complete"

\* C6 amended: for "1.2" every fragment that contains the grandchild
\* "1.2.1.1" is judged incomplete, so the request does not resolve on it.
C6_GrandchildIncomplete ==
    (dirPath = <<1, 2>> /\ dirVerdict # "none" /\ DirHas(<<1, 2, 1, 1>>))
        => dirVerdict = "incomplete"

C6_Witness ==
    /\ dirPath = <<1, 2>>
    /\ dirElements.list = GrandchildFragment
    /\ dirVerdict = "incomplete"

\* ---------------------------------------------------------------- C9
\* The children of a node that expand does not skip, in order.
Expanded(node) == SelectSeq(Children(node), LAMBDA c : c \notin xParams)

\* The nodes at or below the caller's node that are not parameters.
Expandable == {n \in ExpandNodes \ xParams : IsPrefix(xTop, n)}

\* The nodes whose expand is in progress.
InProgress == {xStack[k].node : k \in 1..Len(xStack)}

\* C9: for expand(node) on a node that is not a parameter: the caller's
\* promise is rejected exactly when getDirectory(node) itself is rejected, and
\* with that error. When the expansion of a child fails, the error is recorded
\* on the child, the next sibling that is not skipped has had its getDirectory
\* called, and after the last such sibling the parent's expand has resolved.
\* Once the caller's promise is resolved, every child that is not skipped of
\* every expanded node has had its attempt.
C9_PartialFailure ==
    (xResult # "none" /\ xTop # NoNode /\ xTop \notin xParams) =>
        /\ xResult \in DirErrors <=> xDir[xTop] \in DirErrors
        /\ xResult \in DirErrors => xResult = xDir[xTop]
        /\ \A parent \in Expandable :
               LET sibs == Expanded(parent)
               IN  \A i \in 1..Len(sibs) :
                       xDir[sibs[i]] \in DirErrors =>
                           /\ xError[sibs[i]] = xDir[sibs[i]]
                           /\ i < Len(sibs) => xDir[sibs[i + 1]] # "none"
                           /\ i = Len(sibs) =>
                                  /\ parent \notin InProgress
                                  /\ parent = xTop => xResult = "resolved"
        /\ xResult = "resolved" =>
               /\ xStack = <<>>
               /\ \A parent \in Expandable :
                      xDir[parent] = "resolved" =>
                          \A i \in 1..Len(Expanded(parent)) :
                              xDir[Expanded(parent)[i]] \in DirErrors \cup {"resolved"}

\* expand(1) resolved although the expansion of its first child timed out;
\* the error is on that child and the third child was expanded after it, the
\* second being a parameter.
C9_Witness ==
    /\ xTop = <<1>>
    /\ xParams = { <<1, 2>> }
    /\ xResult = "resolved"
    /\ xDir[<<1, 1>>] = EmberTimeoutError
    /\ xError[<<1, 1>>] = EmberTimeoutError
    /\ xDir[<<1, 2>>] = "none"
    /\ xDir[<<1, 3>>] = "resolved"
    /\ xDir[<<1, 3, 1>>] = "resolved"

\* --------------------------------------------------------------- C10
\* The first merge dropped a qualified node whose parent is known once the
\* merge is over: the fragment carries the parent after the node.
ParentAfterChild ==
    \E k \in 1..Len(mDropped) :
        GetElementByPath(mOnce, ROOT, GetPath(Front(mDropped[k]))) # NONE

\* C10 as stated: a qualified fragment merged twice in a row leaves the tree
\* as it was after the first merge.
C10_MergeTwiceSame ==
    mStep = 2 => mTree = mOnce

\* C10, amended: a qualified fragment merged twice in a row leaves the tree
\* as it was after the first merge, no node duplicated and no field changed,
\* unless the first merge dropped a node whose parent the fragment carries
\* after it.
C10_MergeTwiceSameInOrder ==
    (mStep = 2 /\ ~ParentAfterChild) => mTree = mOnce

\* A fragment was merged twice whose first node was known before with
\* another value and carries a child that was unknown.
C10_Witness ==
    /\ mStep = 2
    /\ ~ParentAfterChild
    /\ LET node == mFrag.elements.list[1]
           was == GetElementByPath(mBefore, ROOT, GetPath(node.qpath))
       IN  /\ was # NONE
           /\ node.value # 0
           /\ mBefore.nodes[was].value # node.value
           /\ node.children # <<>>
           /\ Len(mTree.nodes) > Len(mBefore.nodes)

\* ------------------------------------------------- reading the notes
\* The places of mNotes where an entry of kind e about path was recorded.
NotePlaces(e, path) ==
    {k \in 1..Len(mNotes) : mNotes[k].ev = e /\ mNotes[k].path = path}

\* The last operation on the tree was handleRoot.
Merging == mNotes # <<>> /\ mNotes[1].ev = "handleRoot"

\* The top-level elements of the fragment merged last.
TopElements == mFrag.elements.list

\* --------------------------------------------------------------- C11
\* C11 as stated: whenever a fragment has been merged, every qualified
\* element of it that was applied to the tree, known before or not, has had a
\* value-change notification emitted for it.
C11_ValueChangeEveryTime ==
    Merging =>
        \A i \in 1..Len(TopElements) :
            (TopElements[i].qualified /\ NotePlaces("merged", TopElements[i].qpath) # {}) =>
                NotePlaces("value-change", TopElements[i].qpath) # {}

\* --------------------------------------------------------------- C12
\* C12: when a fragment is merged whose one element is a qualified node with
\* a path of several segments and the parent path is not in the tree, the
\* tree, with the callbacks registered in it, is as before: neither the node
\* nor what it carries is attached; nothing is emitted and no callback is
\* collected or invoked.
C12_ForwardReference ==
    [][(/\ mNotes' # <<>>
        /\ mNotes'[1].ev = "handleRoot"
        /\ Len(mFrag'.elements.list) = 1
        /\ mFrag'.elements.list[1].qualified
        /\ Len(mFrag'.elements.list[1].qpath) > 1
        /\ GetElementByPath(mTree, ROOT,
                            GetPath(Front(mFrag'.elements.list[1].qpath))) = NONE) =>
          /\ mTree' = mTree
          /\ mNotes' = <<Operation("handleRoot", <<>>, 0),
                         Dropped(mFrag'.elements.list[1].qpath)>>
      ]_vars

\* A node 2.1 that carries a child was merged into a tree that has a node
\* with a subscribed callback but no node 2, and was dropped.
C12_Witness ==
    /\ Merging
    /\ Len(TopElements) = 1
    /\ TopElements[1].qpath = <<2, 1>>
    /\ TopElements[1].children # <<>>
    /\ NotePlaces("dropped", <<2, 1>>) # {}
    /\ \E i \in 1..Len(mTree.nodes) : mTree.nodes[i].cbs # <<>>

\* --------------------------------------------------------------- C13
\* C13 as stated: once unsubscribe(node, callback) has been called for a
\* callback that subscribe(node, callback) registered, on a node that is not
\* a stream, the callback is not among the callbacks of the node and no merge
\* invokes it.
C13_UnsubscribeRemoves ==
    \A u \in mSubs :
        u.gone =>
            LET i == GetElementByPath(mTree, ROOT, GetPath(u.path))
            IN  /\ i # NONE => \A k \in 1..Len(mTree.nodes[i].cbs) :
                                   mTree.nodes[i].cbs[k] # u.cb
                /\ \A k \in NotePlaces("callback", u.path) : mNotes[k].value # u.cb

\* --------------------------------------------------------------- C15
\* C15 as stated: in a merge, every value-change event and every invocation
\* of a collected callback comes after the last node of the fragment has been
\* merged or dropped, and the callbacks invoked are the callbacks collected,
\* each once, in the order collected.
C15_NotifiedAfterMerge ==
    [][(mNotes' # <<>> /\ mNotes'[1].ev = "handleRoot") =>
          LET notes == mNotes'
              collected == MergeRoot(mTree, mFrag').cbs
          IN  /\ \A k \in 1..Len(notes) : \A j \in 1..Len(notes) :
                     (/\ notes[k].ev \in {"value-change", "callback"}
                      /\ notes[j].ev \in {"merged", "dropped"}) => j < k
              /\ SelectSeq(notes, LAMBDA x : x.ev = "callback")
                     = [k \in 1..Len(collected) |->
                           [ev |-> "callback",
                            path |-> NodePath(mTree', collected[k].at),
                            value |-> collected[k].req]]
      ]_vars

\* --------------------------------------------------------------- C16
\* The paths a fragment names: those of its elements and of all they carry.
NamedPaths(frag) ==
    LET named == FlattenAll(<<>>, frag.elements.list)
    IN  {named[k].path : k \in 1..Len(named)}

\* C16: a merge keeps every node of the tree in its place, with its path and
\* its subscribed callbacks, and every node has its parent in the tree; a
\* node whose path the fragment does not name is unchanged.
C16_MergeKeepsNodes ==
    [][(mNotes' # <<>> /\ mNotes'[1].ev = "handleRoot") =>
          /\ Len(mTree'.nodes) >= Len(mTree.nodes)
          /\ \A i \in 1..Len(mTree.nodes) :
                 /\ mTree'.nodes[i].path = mTree.nodes[i].path
                 /\ mTree'.nodes[i].cbs = mTree.nodes[i].cbs
                 /\ mTree.nodes[i].path \notin NamedPaths(mFrag') =>
                        mTree'.nodes[i] = mTree.nodes[i]
          /\ \A i \in 1..Len(mTree'.nodes) :
                 \/ Len(mTree'.nodes[i].path) = 1
                 \/ \E j \in 1..Len(mTree'.nodes) :
                        mTree'.nodes[j].path = Front(mTree'.nodes[i].path)
      ]_vars

\* Node 1, known with node 1.1 below it, was merged again by its number with
\* a new value: it has the value, and node 1.1 is still there.
C16_Witness ==
    /\ Merging
    /\ TopElements = <<Leaf(1, 2)>>
    /\ \E i \in 1..Len(mTree.nodes) :
           mTree.nodes[i].path = <<1>> /\ mTree.nodes[i].value = 2
    /\ \E i \in 1..Len(mTree.nodes) : mTree.nodes[i].path = <<1, 1>>

\* ------------------------------------------------------------------
\* Late responses, clearing of Root, and progress of the pipeline.

\* The inbound fragment of the step, when the step is client.on('emberTree').
TreeArrives == trace' # <<>> /\ trace'[1].ev = "tree"

\* The step delivers the device's answer to the request that timed out last.
LateArrives == TreeArrives /\ lapsed # 0 /\ trace'[1].p = lapsed

\* C14: a response to a request that has already timed out is ignored when it
\* arrives: the request active at that moment stays the active request, and
\* its caller's promise is not settled by the step.
C14_LateResponseIgnored ==
    [][(LateArrives /\ activeRequest # NoRequest)
           => /\ activeRequest' = activeRequest
              /\ (activeRequest.p \in promise => activeRequest.p \in promise')]_vars

\* The request the step passes to addRequest, if it passes one.
Newest ==
    IF activeRequest'.n = added' THEN activeRequest'
    ELSE IF pendingRequests' # <<>> THEN pendingRequests'[Len(pendingRequests')]
    ELSE NoRequest

\* The step is a call of getDirectory without a node.
RootDirectoryCalled ==
    /\ added' = added + 1
    /\ Newest.n = added'
    /\ Newest.kind = "getDirectory"
    /\ Newest.node = <<>>

\* Every node of the tree before is a node of the tree after.
Keeps(before, after) ==
    \A i \in 1..Len(before.nodes) :
        \E j \in 1..Len(after.nodes) : after.nodes[j].path = before.nodes[i].path

\* C17: Root is cleared only by getDirectory without a node: a step in which
\* a node under Root is lost is such a call, so disconnect, connect, transport
\* error, timeout, setValue, invokeFunction, getDirectory(node) and merges keep
\* every node that was there.
C17_ClearedOnlyByRootDirectory ==
    [][~Keeps(root, root') => RootDirectoryCalled]_vars

\* A populated tree with requests active and queued, after a step that is
\* neither a call nor a delivery to a handler: a disconnect.
C17_Witness ==
    /\ root.nodes # <<>>
    /\ trace = <<>>
    /\ activeRequest # NoRequest
    /\ pendingRequests # <<>>

\* The request of call p is the active request or waits in the queue.
Outstanding(p) ==
    \/ activeRequest.p = p
    \/ \E i \in 1..Len(pendingRequests) : pendingRequests[i].p = p

\* C18: with timers that fire, every request passed to addRequest leaves the
\* queue and the active slot in the end and its caller's promise is settled,
\* whatever fragments, transport events and connect calls occur or do not.
C18_EveryRequestFinishes ==
    \A p \in 1..MaxCalls : Outstanding(p) ~> (~Outstanding(p) /\ p \notin promise)

\* Two or more requests were added, the last of them was ended by its timer,
\* and nothing is active, queued or unsettled.
C18_Witness ==
    /\ added >= 2
    /\ trace # <<>>
    /\ trace[1].ev = "fire"
    /\ trace[1].n = added
    /\ activeRequest = NoRequest
    /\ pendingRequests = <<>>
    /\ promise = {}

\* The active request is a getDirectory without a node whose handler is the
\* one in self.callback, and its promise is not settled.
RootDirectoryWaits ==
    /\ activeRequest.kind = "getDirectory"
    /\ activeRequest.node = <<>>
    /\ callback = activeRequest
    /\ activeRequest.p \in promise

\* C19: a getDirectory without a node resolves on the device's response that
\* lists the top-level elements, however many there are: when the listing
\* arrives while the request waits, the promise of its call is resolved.
C19_RootDirectoryResolves ==
    [][(TreeArrives /\ trace'[1].info = "listing" /\ trace'[1].p = 0
            /\ RootDirectoryWaits)
           => \E i \in 1..Len(trace') :
                  trace'[i].ev = "resolve" /\ trace'[i].p = activeRequest.p]_vars

\* C20: a getDirectory without a node does not clear Root while another
\* request is active: the call keeps every node of the tree when it is made
\* behind an active request.
C20_NoClearBehindActive ==
    [][(RootDirectoryCalled /\ activeRequest # NoRequest) => Keeps(root, root')]_vars

====
